---- MODULE Spec2Model ----
(***************************************************************************)
(* Poolakey analytics helpers: SubscriptionManager, ExceptionManager and   *)
(* PurchaseMapper.                                                         *)
(*                                                                         *)
(* Strings whose characters matter (prices, product ids, exception fields, *)
(* signatures) are sequences of one-character strings.  A Python float     *)
(* that is a quotient or a decimal is an exact fraction <<num, den>> in    *)
(* lowest terms.                                                           *)
(***************************************************************************)
EXTENDS Integers, Sequences, FiniteSets, TLC

VARIABLES purchases, skus, trials, exceptions, file, op, result, log, input

vars == <<purchases, skus, trials, exceptions, file, op, result, log, input>>

(***************************************************************************)
(* Bounds of the model.                                                    *)
(***************************************************************************)
MaxCalls == 2
MaxPurchases == 4
MaxSkus == 2
MaxTrials == 2
MaxExceptions == 3
MaxBucketCalls == 3
MaxMembers == 2
MaxStrLen == 2
MaxListLen == 3

(***************************************************************************)
(* Characters and numbers.                                                 *)
(***************************************************************************)
DigitChars == {"0", "1", "2", "3", "4", "5", "6", "7", "8", "9"}

IsDigit(c) == c \in DigitChars

DigitVal(c) ==
    CASE c = "0" -> 0 [] c = "1" -> 1 [] c = "2" -> 2 [] c = "3" -> 3
      [] c = "4" -> 4 [] c = "5" -> 5 [] c = "6" -> 6 [] c = "7" -> 7
      [] c = "8" -> 8 [] c = "9" -> 9

RECURSIVE ToNumber(_)
ToNumber(ds) ==
    IF ds = <<>> THEN 0
    ELSE 10 * ToNumber(SubSeq(ds, 1, Len(ds) - 1)) + DigitVal(ds[Len(ds)])

RECURSIVE Gcd(_, _)
Gcd(a, b) == IF b = 0 THEN a ELSE Gcd(b, a % b)

RECURSIVE Pow10(_)
Pow10(n) == IF n = 0 THEN 1 ELSE 10 * Pow10(n - 1)

Frac(n, d) == <<n \div Gcd(n, d), d \div Gcd(n, d)>>

FracAdd(a, b) == Frac(a[1] * b[2] + b[1] * a[2], a[2] * b[2])

Zero == <<0, 1>>

None == "None"

EmptyMap == [x \in {} |-> 0]

(***************************************************************************)
(* Records held by SubscriptionManager.                                    *)
(***************************************************************************)
\* identifiers SKUs carry
SkuIds == {<<"g">>, <<"p", "1">>}

\* a purchase whose product_id is None
MissingId == <<"None">>

ProductIds ==
    SkuIds \cup {<<"v", "1", ".", "5">>, <<"1", ".", "2", ".", "3">>, MissingId}

PurchaseStates == {"PURCHASED", "REFUNDED"}

PurchaseVals == [product_id : ProductIds, purchase_state : PurchaseStates]

Prices == {<<"$", "9", ".", "9", "9">>,
           <<"$", "1", "9", ".", "9", "9">>,
           <<"0", "9", "9", "9">>,
           <<"0">>,
           <<"f", "r", "e", "e">>}

SkuTypes == {"subs", "inapp"}

SkuVals == [sku : SkuIds, price : Prices, type : SkuTypes]

TrialVals == [is_available : BOOLEAN, trial_period_days : {3, 7}]

IsRefunded(p) == p.purchase_state = "REFUNDED"

IsSubscription(s) == s.type = "subs"

CanUseTrial(t) == t.is_available

(***************************************************************************)
(* Initial state: the managers just constructed, no file written.          *)
(***************************************************************************)
NoLog == [purchases |-> <<>>, skus |-> <<>>, trials |-> <<>>, exceptions |-> <<>>]

Absent == [kind |-> "absent", rows |-> <<>>]

OldFile == [kind |-> "old", rows |-> <<>>]

Init ==
    /\ purchases = <<>>
    /\ skus = <<>>
    /\ trials = <<>>
    /\ exceptions = <<>>
    /\ file = Absent
    /\ op = "init"
    /\ result = None
    /\ log = NoLog
    /\ input = [call |-> "none"]

(***************************************************************************)
(* SubscriptionManager: adders.                                            *)
(***************************************************************************)
AppendUnlessPresent(ps, p) ==
    IF \E i \in 1..Len(ps) : ps[i] = p THEN ps ELSE Append(ps, p)

AppendPurchase(ps, p) == Append(ps, p)

add_purchase(p) ==
    /\ Len(purchases) < MaxPurchases
    /\ purchases' = AppendPurchase(purchases, p)
    /\ log' = [log EXCEPT !.purchases = Append(@, p)]
    /\ op' = "add_purchase"
    /\ result' = None
    /\ UNCHANGED <<skus, trials, exceptions, file, input>>

add_sku(s) ==
    /\ Len(skus) < MaxSkus
    /\ skus' = Append(skus, s)
    /\ log' = [log EXCEPT !.skus = Append(@, s)]
    /\ op' = "add_sku"
    /\ result' = None
    /\ UNCHANGED <<purchases, trials, exceptions, file, input>>

add_trial(t) ==
    /\ Len(trials) < MaxTrials
    /\ trials' = Append(trials, t)
    /\ log' = [log EXCEPT !.trials = Append(@, t)]
    /\ op' = "add_trial"
    /\ result' = None
    /\ UNCHANGED <<purchases, skus, exceptions, file, input>>

(***************************************************************************)
(* SubscriptionManager: purchase analysis.                                 *)
(***************************************************************************)
RECURSIVE CountRefunded(_)
CountRefunded(ps) ==
    IF ps = <<>> THEN 0
    ELSE (IF IsRefunded(Head(ps)) THEN 1 ELSE 0) + CountRefunded(Tail(ps))

RefundRatioWrongState(ps) ==
    IF ps = <<>> THEN Zero
    ELSE Frac(Len(ps) - CountRefunded(ps), Len(ps))

RefundRatio(ps) ==
    IF ps = <<>> THEN Zero
    ELSE Frac(CountRefunded(ps), Len(ps))

refund_ratio ==
    /\ op' = "refund_ratio"
    /\ result' = RefundRatio(purchases)
    /\ UNCHANGED <<purchases, skus, trials, exceptions, file, log, input>>

NumericCharsDigitsOnly(pid) == SelectSeq(pid, IsDigit)

\* ''.join(filter(lambda x: x.isdigit() or x == '.', product_id))
NumericChars(pid) == SelectSeq(pid, LAMBDA c : IsDigit(c) \/ c = ".")

DotCount(s) == Cardinality({i \in 1..Len(s) : s[i] = "."})

\* float() accepts a string of digits and dots iff it has a digit and at most one dot
FloatParses(s) == DotCount(s) <= 1 /\ \E i \in 1..Len(s) : IsDigit(s[i])

FloatOf(s) ==
    LET fracDigits == IF DotCount(s) = 0 THEN 0
                      ELSE Len(s) - (CHOOSE i \in 1..Len(s) : s[i] = ".")
    IN  Frac(ToNumber(SelectSeq(s, IsDigit)), Pow10(fracDigits))

\* the try body raises (TypeError from filter over None, ValueError from float)
\* and the bare except skips the purchase
Raises(pid) == pid = MissingId \/ ~FloatParses(NumericChars(pid))

RECURSIVE RevenueEstimation(_)
RevenueEstimation(ps) ==
    IF ps = <<>> THEN Zero
    ELSE LET p == ps[Len(ps)]
             rest == RevenueEstimation(SubSeq(ps, 1, Len(ps) - 1))
         IN  IF Raises(p.product_id)
             THEN rest
             ELSE FracAdd(rest, FloatOf(NumericChars(p.product_id)))

revenue_estimation ==
    /\ op' = "revenue_estimation"
    /\ result' = RevenueEstimation(purchases)
    /\ UNCHANGED <<purchases, skus, trials, exceptions, file, log, input>>

(***************************************************************************)
(* SubscriptionManager: SKU analysis.                                      *)
(***************************************************************************)
PriceDigitsBeforePoint(price) ==
    LET cut == IF \E i \in 1..Len(price) : price[i] = "."
               THEN (CHOOSE i \in 1..Len(price) :
                        price[i] = "." /\ \A j \in 1..(i - 1) : price[j] # ".") - 1
               ELSE Len(price)
    IN  SelectSeq(SubSeq(price, 1, cut), IsDigit)

\* ''.join(filter(str.isdigit, price))
PriceDigits(price) == SelectSeq(price, IsDigit)

\* float(digits or 0)
MostKey(s) ==
    IF PriceDigits(s.price) = <<>> THEN 0 ELSE ToNumber(PriceDigits(s.price))

LeastKeyZeroDefault(s) ==
    IF PriceDigits(s.price) = <<>> THEN <<0, 0>>
    ELSE <<0, ToNumber(PriceDigits(s.price))>>

\* float(digits or float('inf')): <<1, 0>> is infinity, <<0, v>> the finite v
LeastKey(s) ==
    IF PriceDigits(s.price) = <<>> THEN <<1, 0>>
    ELSE <<0, ToNumber(PriceDigits(s.price))>>

KeyLess(a, b) == a[1] < b[1] \/ (a[1] = b[1] /\ a[2] < b[2])

\* max(iterable, key): the first item whose key no other exceeds
RECURSIVE MaxFrom(_, _, _)
MaxFrom(ss, i, best) ==
    IF i > Len(ss) THEN best
    ELSE MaxFrom(ss, i + 1, IF MostKey(ss[i]) > MostKey(best) THEN ss[i] ELSE best)

\* min(iterable, key): the first item whose key is below no other
RECURSIVE MinFrom(_, _, _)
MinFrom(ss, i, best) ==
    IF i > Len(ss) THEN best
    ELSE MinFrom(ss, i + 1,
                 IF KeyLess(LeastKey(ss[i]), LeastKey(best)) THEN ss[i] ELSE best)

MostExpensiveSku(ss) == IF ss = <<>> THEN None ELSE MaxFrom(ss, 2, ss[1])

LeastExpensiveSku(ss) == IF ss = <<>> THEN None ELSE MinFrom(ss, 2, ss[1])

most_expensive_sku ==
    /\ op' = "most_expensive_sku"
    /\ result' = MostExpensiveSku(skus)
    /\ UNCHANGED <<purchases, skus, trials, exceptions, file, log, input>>

least_expensive_sku ==
    /\ op' = "least_expensive_sku"
    /\ result' = LeastExpensiveSku(skus)
    /\ UNCHANGED <<purchases, skus, trials, exceptions, file, log, input>>

RECURSIVE CountSubscriptions(_)
CountSubscriptions(ss) ==
    IF ss = <<>> THEN 0
    ELSE (IF IsSubscription(Head(ss)) THEN 1 ELSE 0) + CountSubscriptions(Tail(ss))

SubscriptionVsOneTime(ss) ==
    [subscription |-> CountSubscriptions(ss),
     one_time |-> Len(ss) - CountSubscriptions(ss)]

subscription_vs_one_time ==
    /\ op' = "subscription_vs_one_time"
    /\ result' = SubscriptionVsOneTime(skus)
    /\ UNCHANGED <<purchases, skus, trials, exceptions, file, log, input>>

\* sku_dict = {s.sku: s.type for s in self.skus}: a later SKU overwrites an
\* earlier one with the same identifier
RECURSIVE SkuDict(_)
SkuDict(ss) ==
    IF ss = <<>> THEN EmptyMap
    ELSE LET d == SkuDict(SubSeq(ss, 1, Len(ss) - 1))
             s == ss[Len(ss)]
         IN  [k \in DOMAIN d \cup {s.sku} |-> IF k = s.sku THEN s.type ELSE d[k]]

\* sku_dict.get(product_id, "unknown")
TypeOf(d, pid) == IF pid \in DOMAIN d THEN d[pid] ELSE "unknown"

\* df.groupby("type")["refunded"].mean().to_dict()
GroupMean(ps, d) ==
    LET types == {TypeOf(d, ps[i].product_id) : i \in 1..Len(ps)}
        rows(t) == SelectSeq(ps, LAMBDA p : TypeOf(d, p.product_id) = t)
    IN  [t \in types |-> Frac(CountRefunded(rows(t)), Len(rows(t)))]

RefundProbabilityIgnoringEmptySkus(ps, ss) ==
    IF ps = <<>> THEN EmptyMap ELSE GroupMean(ps, SkuDict(ss))

RefundProbabilityByType(ps, ss) ==
    IF ps = <<>> \/ ss = <<>> THEN EmptyMap
    ELSE GroupMean(ps, SkuDict(ss))

refund_probability_by_type ==
    /\ op' = "refund_probability_by_type"
    /\ result' = RefundProbabilityByType(purchases, skus)
    /\ UNCHANGED <<purchases, skus, trials, exceptions, file, log, input>>

(***************************************************************************)
(* SubscriptionManager: trial analysis.                                    *)
(***************************************************************************)
RECURSIVE CountAvailable(_)
CountAvailable(ts) ==
    IF ts = <<>> THEN 0
    ELSE (IF CanUseTrial(Head(ts)) THEN 1 ELSE 0) + CountAvailable(Tail(ts))

RECURSIVE SumDays(_)
SumDays(ts) ==
    IF ts = <<>> THEN 0 ELSE Head(ts).trial_period_days + SumDays(Tail(ts))

AverageTrialDays(ts) == IF ts = <<>> THEN Zero ELSE Frac(SumDays(ts), Len(ts))

available_trials_count ==
    /\ op' = "available_trials_count"
    /\ result' = CountAvailable(trials)
    /\ UNCHANGED <<purchases, skus, trials, exceptions, file, log, input>>

average_trial_days ==
    /\ op' = "average_trial_days"
    /\ result' = AverageTrialDays(trials)
    /\ UNCHANGED <<purchases, skus, trials, exceptions, file, log, input>>

(***************************************************************************)
(* AndroidException and ExceptionManager.                                  *)
(***************************************************************************)
Names == {<<"E">>, <<"\\", "n">>}

Messages == {<<"\"", "m">>}

Types == {<<"A">>, <<"B">>}

\* datetime.now(): seconds and microseconds of the creation time
Timestamps == {[sec |-> 1, usec |-> 0], [sec |-> 2, usec |-> 5]}

ExceptionVals ==
    [name : Names, message : Messages, type : Types, timestamp : Timestamps]

DigitChar(n) ==
    CASE n = 0 -> "0" [] n = 1 -> "1" [] n = 2 -> "2" [] n = 3 -> "3"
      [] n = 4 -> "4" [] n = 5 -> "5" [] n = 6 -> "6" [] n = 7 -> "7"
      [] n = 8 -> "8" [] n = 9 -> "9"

\* datetime.isoformat(): the fraction is written only when microsecond # 0
IsoFormat(ts) ==
    <<"T", DigitChar(ts.sec)>> \o
    (IF ts.usec = 0 THEN <<>> ELSE <<".", DigitChar(ts.usec)>>)

\* str(datetime): a space where isoformat() has the T
StrOfTimestamp(ts) ==
    <<" ", DigitChar(ts.sec)>> \o
    (IF ts.usec = 0 THEN <<>> ELSE <<".", DigitChar(ts.usec)>>)

FieldNames == <<"name", "message", "type", "timestamp">>

ToDict(ex) ==
    [name |-> ex.name, message |-> ex.message, type |-> ex.type,
     timestamp |-> IsoFormat(ex.timestamp)]

add_exception(ex) ==
    /\ Len(exceptions) < MaxExceptions
    /\ exceptions' = Append(exceptions, ex)
    /\ log' = [log EXCEPT !.exceptions = Append(@, ex)]
    /\ op' = "add_exception"
    /\ result' = None
    /\ UNCHANGED <<purchases, skus, trials, file, input>>

\* Counter(ex.type for ex in exceptions)
RECURSIVE CounterOfTypes(_)
CounterOfTypes(exs) ==
    IF exs = <<>> THEN EmptyMap
    ELSE LET c == CounterOfTypes(SubSeq(exs, 1, Len(exs) - 1))
             t == exs[Len(exs)].type
         IN  [k \in DOMAIN c \cup {t} |->
                 (IF k \in DOMAIN c THEN c[k] ELSE 0) + (IF k = t THEN 1 ELSE 0)]

ExceptionFrequencyPresence(exs) ==
    [k \in DOMAIN CounterOfTypes(exs) |-> 1]

ExceptionFrequency(exs) == CounterOfTypes(exs)

exception_frequency ==
    /\ op' = "exception_frequency"
    /\ result' = ExceptionFrequency(exceptions)
    /\ UNCHANGED <<purchases, skus, trials, exceptions, file, log, input>>

RECURSIVE ReportBlocks(_)
ReportBlocks(exs) ==
    IF exs = <<>> THEN <<>>
    ELSE LET ex == Head(exs)
         IN  << <<"Name      : ", ex.name>>,
                <<"Message   : ", ex.message>>,
                <<"Type      : ", ex.type>>,
                <<"Timestamp : ", StrOfTimestamp(ex.timestamp)>>,
                <<"-----", <<>> >> >> \o ReportBlocks(Tail(exs))

\* the report's lines, each <<fixed text, formatted value>>
GenerateReport(exs) ==
    << <<"=== Android Exception Report ===", <<>> >>,
       <<"Total Exceptions: ", <<Len(exs)>> >>,
       <<"Unique Types: ", <<Cardinality(DOMAIN CounterOfTypes(exs))>> >>,
       <<"-----", <<>> >> >> \o ReportBlocks(exs)

generate_report ==
    /\ op' = "generate_report"
    /\ result' = GenerateReport(exceptions)
    /\ UNCHANGED <<purchases, skus, trials, exceptions, file, log, input>>

(***************************************************************************)
(* ExceptionManager: export.  A JSON file is its sequence of tokens        *)
(* (insignificant white space left out): <<"p", <<c>>>> is the punctuation *)
(* character c, <<"s", body>> a string literal with the escaped body.      *)
(***************************************************************************)
Punct(c) == <<"p", <<c>> >>

\* json.dumps of one character of a str
EscapeCharNoBackslash(c) ==
    CASE c = "\"" -> <<"\\", "\"">>
      [] c = "\n" -> <<"\\", "n">>
      [] OTHER -> <<c>>

EscapeChar(c) ==
    CASE c = "\"" -> <<"\\", "\"">>
      [] c = "\\" -> <<"\\", "\\">>
      [] c = "\n" -> <<"\\", "n">>
      [] OTHER -> <<c>>

RECURSIVE Escape(_)
Escape(str) ==
    IF str = <<>> THEN <<>> ELSE EscapeChar(Head(str)) \o Escape(Tail(str))

StrToken(str) == <<"s", Escape(str)>>

RECURSIVE DumpMembers(_, _)
DumpMembers(d, i) ==
    IF i > Len(FieldNames) THEN <<>>
    ELSE (IF i = 1 THEN <<>> ELSE <<Punct(",")>>) \o
         <<StrToken(<<FieldNames[i]>>), Punct(":"), StrToken(d[FieldNames[i]])>> \o
         DumpMembers(d, i + 1)

DumpObject(d) == <<Punct("{")>> \o DumpMembers(d, 1) \o <<Punct("}")>>

RECURSIVE DumpObjects(_, _)
DumpObjects(exs, i) ==
    IF i > Len(exs) THEN <<>>
    ELSE (IF i = 1 THEN <<>> ELSE <<Punct(",")>>) \o
         DumpObject(ToDict(exs[i])) \o DumpObjects(exs, i + 1)

\* json.dump([ex.to_dict() for ex in exceptions], f, indent=4)
JsonDump(exs) == <<Punct("[")>> \o DumpObjects(exs, 1) \o <<Punct("]")>>

save_to_json ==
    /\ file' = [kind |-> "json", rows |-> JsonDump(exceptions)]
    /\ op' = "save_to_json"
    /\ result' = None
    /\ UNCHANGED <<purchases, skus, trials, exceptions, log, input>>

\* csv.DictWriter(f, fieldnames=keys): writeheader(), then one writerow per exception
CsvRow(d) == [i \in 1..Len(FieldNames) |-> d[FieldNames[i]]]

CsvRows(exs) ==
    <<[i \in 1..Len(FieldNames) |-> <<FieldNames[i]>>]>> \o
    [i \in 1..Len(exs) |-> CsvRow(ToDict(exs[i]))]

CsvWriteAlways(f, exs) == [kind |-> "csv", rows |-> CsvRows(exs)]

CsvWrite(f, exs) ==
    IF exs = <<>> THEN f ELSE [kind |-> "csv", rows |-> CsvRows(exs)]

save_to_csv ==
    /\ file' = CsvWrite(file, exceptions)
    /\ op' = "save_to_csv"
    /\ result' = None
    /\ UNCHANGED <<purchases, skus, trials, exceptions, log, input>>

(***************************************************************************)
(* PurchaseMapper.  A raw payload is the text of a JSON object: its        *)
(* members <<key, value>> in the order written.  A JSON value and the      *)
(* Python value json.loads makes of it are [t, v]: an int v, the float 0.0 *)
(* (v = 0) or 1.5 (v = 1), the bool v = 1, a str, or null / None.          *)
(***************************************************************************)
JInt(n) == [t |-> "int", v |-> n]

JFloat(n) == [t |-> "float", v |-> n]

JBool(n) == [t |-> "bool", v |-> n]

JStr(n) == [t |-> "str", v |-> n]

PyNone == [t |-> "null", v |-> 0]

StateValues ==
    {JInt(0), JInt(1), JFloat(0), JFloat(1), JBool(0), JBool(1), JStr(0), PyNone}

TimeValues == {JInt(0), JInt(1), PyNone}

TextValues == {JStr(1), PyNone}

TextKeys == {"orderId", "purchaseToken", "developerPayload", "packageName", "productId"}

Members ==
    {<<"purchaseState", v>> : v \in StateValues} \cup
    {<<"purchaseTime", v>> : v \in TimeValues} \cup
    {<<k, v>> : k \in TextKeys, v \in TextValues}

RECURSIVE SeqsUpTo(_, _)
SeqsUpTo(S, n) ==
    IF n = 0 THEN {<<>>}
    ELSE LET shorter == SeqsUpTo(S, n - 1)
         IN  shorter \cup {Append(q, x) : q \in shorter, x \in S}

Payloads == SeqsUpTo(Members, MaxMembers)

Signatures == {<<"s">>}

\* json.loads: an object becomes a dict; a repeated key keeps its last value
RECURSIVE JsonLoads(_)
JsonLoads(text) ==
    IF text = <<>> THEN EmptyMap
    ELSE LET d == JsonLoads(SubSeq(text, 1, Len(text) - 1))
             m == text[Len(text)]
         IN  [k \in DOMAIN d \cup {m[1]} |-> IF k = m[1] THEN m[2] ELSE d[k]]

\* dict.get(key, default)
Get(d, key, default) == IF key \in DOMAIN d THEN d[key] ELSE default

\* Python's x == 0: int, float and bool compare by numeric value (False == 0),
\* a str or None never equals 0
PyEqualsZero(x) == x.t \in {"int", "float", "bool"} /\ x.v = 0

MapState(data) ==
    IF PyEqualsZero(Get(data, "purchaseState", PyNone)) THEN "PURCHASED" ELSE "REFUNDED"

MapToPurchaseInfo(purchase_data, data_signature) ==
    LET data == JsonLoads(purchase_data)
    IN  [order_id |-> Get(data, "orderId", PyNone),
         purchase_token |-> Get(data, "purchaseToken", PyNone),
         payload |-> Get(data, "developerPayload", PyNone),
         package_name |-> Get(data, "packageName", PyNone),
         purchase_state |-> MapState(data),
         purchase_time |-> Get(data, "purchaseTime", JInt(0)),
         product_id |-> Get(data, "productId", PyNone),
         data_signature |-> data_signature,
         original_json |-> purchase_data]

map_to_purchase_info ==
    /\ input.call = "map_to_purchase_info"
    /\ op' = "map_to_purchase_info"
    /\ result' = MapToPurchaseInfo(input.purchase_data, input.data_signature)
    /\ UNCHANGED <<purchases, skus, trials, exceptions, file, log, input>>

TextChars == {" ", "x"}

Texts == SeqsUpTo(TextChars, MaxStrLen)

PublicKeys == {<<>>, <<"k">>}

\* str.strip(): leading and trailing white space removed
RECURSIVE StripLeft(_)
StripLeft(str) ==
    IF str # <<>> /\ Head(str) = " " THEN StripLeft(Tail(str)) ELSE str

RECURSIVE StripRight(_)
StripRight(str) ==
    IF str # <<>> /\ str[Len(str)] = " "
    THEN StripRight(SubSeq(str, 1, Len(str) - 1)) ELSE str

Strip(str) == StripRight(StripLeft(str))

VerifyIgnoringData(purchase_data, signature, public_key) ==
    IF Strip(signature) = <<>> THEN FALSE ELSE TRUE

VerifyPurchaseSignature(purchase_data, signature, public_key) ==
    IF Strip(signature) = <<>> \/ Strip(purchase_data) = <<>> THEN FALSE ELSE TRUE

verify_purchase_signature ==
    /\ input.call = "verify_purchase_signature"
    /\ op' = "verify_purchase_signature"
    /\ result' = VerifyPurchaseSignature(input.purchase_data, input.signature,
                                         input.public_key)
    /\ UNCHANGED <<purchases, skus, trials, exceptions, file, log, input>>

OrderIds == {"o1", "o2"}

PurchaseTimes == {0, 1, 2}

PurchaseInfos == [order_id : OrderIds, purchase_time : PurchaseTimes]

PurchaseLists == SeqsUpTo(PurchaseInfos, MaxListLen)

\* max(purchases, key=lambda p: p.purchase_time, default=None)
RECURSIVE LatestFrom(_, _, _)
LatestFrom(ps, i, best) ==
    IF i > Len(ps) THEN best
    ELSE LatestFrom(ps, i + 1,
                    IF ps[i].purchase_time > best.purchase_time THEN ps[i] ELSE best)

RECURSIVE LastLatestFrom(_, _, _)
LastLatestFrom(ps, i, best) ==
    IF i > Len(ps) THEN best
    ELSE LastLatestFrom(ps, i + 1,
                        IF ps[i].purchase_time >= best.purchase_time THEN ps[i] ELSE best)

GetLastMostRecent(ps) == IF ps = <<>> THEN None ELSE LastLatestFrom(ps, 2, ps[1])

GetMostRecentPurchase(ps) == IF ps = <<>> THEN None ELSE LatestFrom(ps, 2, ps[1])

get_most_recent_purchase ==
    /\ input.call = "get_most_recent_purchase"
    /\ op' = "get_most_recent_purchase"
    /\ result' = GetMostRecentPurchase(input.purchases)
    /\ UNCHANGED <<purchases, skus, trials, exceptions, file, log, input>>

(***************************************************************************)
(* Specifications.                                                         *)
(***************************************************************************)
TotalItems == Len(purchases) + Len(skus) + Len(trials) + Len(exceptions)

\* both managers, every adder and query, at most MaxCalls items added in all
Next ==
    \/ \E p \in PurchaseVals : TotalItems < MaxCalls /\ add_purchase(p)
    \/ \E s \in SkuVals : TotalItems < MaxCalls /\ add_sku(s)
    \/ \E t \in TrialVals : TotalItems < MaxCalls /\ add_trial(t)
    \/ \E ex \in ExceptionVals : TotalItems < MaxCalls /\ add_exception(ex)
    \/ refund_ratio
    \/ revenue_estimation
    \/ most_expensive_sku
    \/ least_expensive_sku
    \/ refund_probability_by_type
    \/ subscription_vs_one_time
    \/ available_trials_count
    \/ average_trial_days
    \/ exception_frequency
    \/ generate_report

Spec == Init /\ [][Next]_vars

\* SubscriptionManager's purchases alone
NextPurchases ==
    \/ \E p \in PurchaseVals : add_purchase(p)
    \/ refund_ratio
    \/ revenue_estimation

SpecPurchases == Init /\ [][NextPurchases]_vars

\* SubscriptionManager's SKUs alone
NextSkus ==
    \/ \E s \in SkuVals : add_sku(s)
    \/ most_expensive_sku
    \/ least_expensive_sku
    \/ subscription_vs_one_time

SpecSkus == Init /\ [][NextSkus]_vars

\* purchases and SKUs together, at most MaxBucketCalls of them in all
NextBuckets ==
    \/ \E p \in PurchaseVals :
          Len(purchases) + Len(skus) < MaxBucketCalls /\ add_purchase(p)
    \/ \E s \in SkuVals :
          Len(purchases) + Len(skus) < MaxBucketCalls /\ add_sku(s)
    \/ refund_probability_by_type

SpecBuckets == Init /\ [][NextBuckets]_vars

\* ExceptionManager, with the export target absent or already there
InitExceptions ==
    /\ purchases = <<>>
    /\ skus = <<>>
    /\ trials = <<>>
    /\ exceptions = <<>>
    /\ file \in {Absent, OldFile}
    /\ op = "init"
    /\ result = None
    /\ log = NoLog
    /\ input = [call |-> "none"]

NextExceptions ==
    \/ \E ex \in ExceptionVals : add_exception(ex)
    \/ exception_frequency
    \/ generate_report
    \/ save_to_json
    \/ save_to_csv

SpecExceptions == InitExceptions /\ [][NextExceptions]_vars

\* PurchaseMapper's static methods: the arguments of one call are drawn at the
\* start, and the method called is applied to them
InitMapper ==
    /\ purchases = <<>>
    /\ skus = <<>>
    /\ trials = <<>>
    /\ exceptions = <<>>
    /\ file = Absent
    /\ op = "init"
    /\ result = None
    /\ log = NoLog
    /\ \/ \E d \in Payloads, sig \in Signatures :
            input = [call |-> "map_to_purchase_info", purchase_data |-> d,
                     data_signature |-> sig]
       \/ \E d \in Texts, sig \in Texts, k \in PublicKeys :
            input = [call |-> "verify_purchase_signature", purchase_data |-> d,
                     signature |-> sig, public_key |-> k]
       \/ \E ps \in PurchaseLists :
            input = [call |-> "get_most_recent_purchase", purchases |-> ps]

NextMapper ==
    \/ map_to_purchase_info
    \/ verify_purchase_signature
    \/ get_most_recent_purchase

SpecMapper == InitMapper /\ [][NextMapper]_vars

(***************************************************************************)
(* Properties.                                                             *)
(***************************************************************************)

\* C1: after any sequence of adder and query calls each collection is exactly
\* the sequence of items passed to its own adder, in call order and with
\* duplicates kept (log records the arguments of the adder calls).
C1_CollectionsAreTheAdderCalls ==
    /\ purchases = log.purchases
    /\ skus = log.skus
    /\ trials = log.trials
    /\ exceptions = log.exceptions

\* the same purchase added twice, then a query
C1_Witness ==
    /\ op = "refund_ratio"
    /\ Len(purchases) = 2
    /\ purchases[1] = purchases[2]

RefundedIndices == {i \in 1..Len(purchases) : purchases[i].purchase_state = "REFUNDED"}

\* C2: refund_ratio is 0 for an empty collection and otherwise the number of
\* REFUNDED purchases divided by the number of purchases; it lies in [0, 1],
\* and 2 PURCHASED with 2 REFUNDED give 0.5.
C2_RefundRatio ==
    op = "refund_ratio" =>
        /\ purchases = <<>> => result = <<0, 1>>
        /\ result[2] > 0
        /\ result[1] * Len(purchases) = Cardinality(RefundedIndices) * result[2]
        /\ 0 <= result[1] /\ result[1] <= result[2]
        /\ Len(purchases) = 4 /\ Cardinality(RefundedIndices) = 2 => result = <<1, 2>>

C2_Witness ==
    /\ op = "refund_ratio"
    /\ Len(purchases) = 4
    /\ Cardinality(RefundedIndices) = 2
    /\ result = <<1, 2>>

\* the value the payload text gives purchaseState (its last occurrence), if any
StateFieldIsNumberZero(text) ==
    \E i \in 1..Len(text) :
        /\ text[i][1] = "purchaseState"
        /\ \A j \in (i + 1)..Len(text) : text[j][1] # "purchaseState"
        /\ text[i][2].t \in {"int", "float"}
        /\ text[i][2].v = 0

FieldOf(text, key, default) ==
    IF \E i \in 1..Len(text) : text[i][1] = key
    THEN text[CHOOSE i \in 1..Len(text) :
                 text[i][1] = key /\ \A j \in (i + 1)..Len(text) : text[j][1] # key][2]
    ELSE default

\* C3: map_to_purchase_info yields PURCHASED exactly when the payload's
\* purchaseState has the value 0 and REFUNDED for any other value or when the
\* field is absent; the other fields are copied, an absent purchaseTime
\* becoming 0 and any other absent field nothing.
C3_StateIsPurchasedExactlyForZero ==
    op = "map_to_purchase_info" =>
        /\ result.purchase_state =
               (IF StateFieldIsNumberZero(input.purchase_data)
                THEN "PURCHASED" ELSE "REFUNDED")
        /\ result.order_id = FieldOf(input.purchase_data, "orderId", PyNone)
        /\ result.purchase_token = FieldOf(input.purchase_data, "purchaseToken", PyNone)
        /\ result.payload = FieldOf(input.purchase_data, "developerPayload", PyNone)
        /\ result.package_name = FieldOf(input.purchase_data, "packageName", PyNone)
        /\ result.product_id = FieldOf(input.purchase_data, "productId", PyNone)
        /\ result.purchase_time = FieldOf(input.purchase_data, "purchaseTime", JInt(0))
        /\ result.data_signature = input.data_signature
        /\ result.original_json = input.purchase_data

NonBlank(str) == \E i \in 1..Len(str) : str[i] # " "

\* C4 as stated: verify_purchase_signature returns false whenever the purchase
\* data and the signature are both non-blank, whatever the public key.
C4_AsStated ==
    (/\ op = "verify_purchase_signature"
     /\ NonBlank(input.purchase_data)
     /\ NonBlank(input.signature)) => result = FALSE

\* C4 amended: verify_purchase_signature returns true exactly when the purchase
\* data and the signature are both non-blank, and false when either is empty or
\* white space only, whatever the public key.
C4_TrueExactlyWhenBothNonBlank ==
    op = "verify_purchase_signature" =>
        result = (NonBlank(input.purchase_data) /\ NonBlank(input.signature))

C4_Witness ==
    /\ op = "verify_purchase_signature"
    /\ NonBlank(input.purchase_data)
    /\ NonBlank(input.signature)
    /\ input.public_key = <<>>
    /\ result = TRUE

MatchingSkus(i) == {k \in 1..Len(skus) : skus[k].sku = purchases[i].product_id}

Unmatched == {i \in 1..Len(purchases) : MatchingSkus(i) = {}}

OfType(t) ==
    {i \in 1..Len(purchases) : \E k \in MatchingSkus(i) : skus[k].type = t}

RateIs(r, I) == r[2] > 0 /\ r[1] * Cardinality(I) = Cardinality(I \cap RefundedIndices) * r[2]

\* C5 as stated: for a non-empty purchase collection and any SKU collection,
\* the empty one included, the result gives each SKU type the refund rate of the
\* purchases matching a SKU of that type, and has an "unknown" entry with the
\* refund rate of the unmatched purchases whenever there is one.
C5_AsStated ==
    (op = "refund_probability_by_type" /\ purchases # <<>>) =>
        /\ Unmatched # {} =>
               "unknown" \in DOMAIN result /\ RateIs(result["unknown"], Unmatched)
        /\ \A t \in SkuTypes : OfType(t) # {} =>
               t \in DOMAIN result /\ RateIs(result[t], OfType(t))

\* the bucket of purchase i: the type of the last-added SKU with its product id
BucketOf(i) ==
    IF MatchingSkus(i) = {} THEN "unknown"
    ELSE skus[CHOOSE k \in MatchingSkus(i) : \A m \in MatchingSkus(i) : m <= k].type

InBucket(t) == {i \in 1..Len(purchases) : BucketOf(i) = t}

\* C5 amended: when the purchase collection or the SKU collection is empty the
\* result is the empty mapping; otherwise it has one entry per bucket holding a
\* purchase, the bucket of a purchase being the type of the last-added SKU whose
\* identifier equals its product id, or "unknown" when no SKU matches, and each
\* entry is the refund rate of the purchases in that bucket.
C5_RefundRatePerBucket ==
    op = "refund_probability_by_type" =>
        IF purchases = <<>> \/ skus = <<>>
        THEN DOMAIN result = {}
        ELSE /\ DOMAIN result = {BucketOf(i) : i \in 1..Len(purchases)}
             /\ \A t \in DOMAIN result : RateIs(result[t], InBucket(t))

C5_Witness ==
    /\ op = "refund_probability_by_type"
    /\ skus # <<>>
    /\ Unmatched # {}
    /\ "unknown" \in DOMAIN result
    /\ \E t \in SkuTypes : t \in DOMAIN result

\* the digits of a price read as one number, every other character dropped
RECURSIVE ConcatDigits(_, _)
ConcatDigits(price, acc) ==
    IF price = <<>> THEN acc
    ELSE ConcatDigits(Tail(price),
                      IF Head(price) \in DigitChars
                      THEN 10 * acc + DigitVal(Head(price)) ELSE acc)

HasDigit(price) == \E i \in 1..Len(price) : price[i] \in DigitChars

\* C6: when every price has a digit, most_expensive_sku returns a member whose
\* concatenated price digits are >= those of every SKU and least_expensive_sku
\* one whose digits are <= those of every SKU; both return nothing for an empty
\* collection.
C6_ExtremaByConcatenatedDigits ==
    (/\ op \in {"most_expensive_sku", "least_expensive_sku"}
     /\ \A i \in 1..Len(skus) : HasDigit(skus[i].price)) =>
        IF skus = <<>> THEN result = None
        ELSE /\ \E i \in 1..Len(skus) : skus[i] = result
             /\ op = "most_expensive_sku" =>
                    \A j \in 1..Len(skus) :
                        ConcatDigits(skus[j].price, 0) <= ConcatDigits(result.price, 0)
             /\ op = "least_expensive_sku" =>
                    \A j \in 1..Len(skus) :
                        ConcatDigits(skus[j].price, 0) >= ConcatDigits(result.price, 0)

\* "$19.99" (1999) ranks above "$9.99" (999)
C6_Witness ==
    /\ op = "most_expensive_sku"
    /\ Len(skus) = 2
    /\ skus[1].price = <<"$", "9", ".", "9", "9">>
    /\ skus[2].price = <<"$", "1", "9", ".", "9", "9">>
    /\ result = skus[2]

OfExceptionType(t) == {i \in 1..Len(exceptions) : exceptions[i].type = t}

RECURSIVE SumOver(_, _)
SumOver(f, S) ==
    IF S = {} THEN 0
    ELSE LET x == CHOOSE y \in S : TRUE IN f[x] + SumOver(f, S \ {x})

\* C7: exception_frequency returns a mapping whose keys are exactly the types of
\* the stored exceptions, each with the number of stored exceptions of that
\* type, so the values sum to the number of stored exceptions.
C7_FrequencyCountsByType ==
    op = "exception_frequency" =>
        /\ DOMAIN result = {exceptions[i].type : i \in 1..Len(exceptions)}
        /\ \A t \in DOMAIN result : result[t] = Cardinality(OfExceptionType(t))
        /\ SumOver(result, DOMAIN result) = Len(exceptions)

C7_Witness ==
    /\ op = "exception_frequency"
    /\ Len(exceptions) = 3
    /\ result[<<"A">>] = 2
    /\ result[<<"B">>] = 1

ExpectedCsvRow(ex) ==
    <<ex.name, ex.message, ex.type, IsoFormat(ex.timestamp)>>

\* C8: save_to_csv on an empty collection reports no error and leaves the
\* target file as it was (not created, not truncated); on a non-empty collection
\* it writes the header row and then one row per stored exception, in insertion
\* order.
C8_CsvNoOpWhenEmpty ==
    [][op' = "save_to_csv" =>
          /\ result' = None
          /\ IF exceptions = <<>>
             THEN file' = file
             ELSE /\ file'.kind = "csv"
                  /\ Len(file'.rows) = Len(exceptions) + 1
                  /\ file'.rows[1] = << <<"name">>, <<"message">>, <<"type">>, <<"timestamp">> >>
                  /\ \A i \in 1..Len(exceptions) :
                         file'.rows[i + 1] = ExpectedCsvRow(exceptions[i])]_vars

\* an existing file survives save_to_csv on the empty collection
C8_Witness ==
    /\ op = "save_to_csv"
    /\ exceptions = <<>>
    /\ file.kind = "json"

\* reading a JSON string literal back
RECURSIVE Unescape(_)
Unescape(body) ==
    IF body = <<>> THEN <<>>
    ELSE IF Head(body) = "\\" /\ Len(body) >= 2
         THEN <<IF body[2] = "n" THEN "\n" ELSE body[2]>> \o
              Unescape(SubSeq(body, 3, Len(body)))
         ELSE <<Head(body)>> \o Unescape(Tail(body))

\* the members of an object, from token i to its closing brace: <<object, index>>
RECURSIVE ParseMembersAt(_, _, _)
ParseMembersAt(toks, i, obj) ==
    IF toks[i] = Punct("}") THEN <<obj, i>>
    ELSE LET next == [k \in DOMAIN obj \cup {Unescape(toks[i][2])} |->
                         IF k = Unescape(toks[i][2])
                         THEN Unescape(toks[i + 2][2]) ELSE obj[k]]
         IN  IF toks[i + 3] = Punct(",")
             THEN ParseMembersAt(toks, i + 4, next)
             ELSE <<next, i + 3>>

\* the objects of an array, from token i to its closing bracket
RECURSIVE ParseObjectsAt(_, _, _)
ParseObjectsAt(toks, i, arr) ==
    IF toks[i] = Punct("]") THEN arr
    ELSE IF toks[i] = Punct(",") THEN ParseObjectsAt(toks, i + 1, arr)
    ELSE LET r == ParseMembersAt(toks, i + 1, EmptyMap)
         IN  ParseObjectsAt(toks, r[2] + 1, Append(arr, r[1]))

ParseJson(toks) == ParseObjectsAt(toks, 2, <<>>)

\* C10: save_to_json followed by re-parsing the written file yields an array
\* with one object per stored exception, in insertion order, whose name,
\* message, type and timestamp equal those of the stored exception (the
\* timestamp in its ISO-8601 form).
C10_JsonRoundTrip ==
    op = "save_to_json" =>
        /\ file.kind = "json"
        /\ LET parsed == ParseJson(file.rows)
           IN  /\ Len(parsed) = Len(exceptions)
               /\ \A i \in 1..Len(exceptions) :
                      /\ DOMAIN parsed[i] =
                             {<<"name">>, <<"message">>, <<"type">>, <<"timestamp">>}
                      /\ parsed[i][<<"name">>] = exceptions[i].name
                      /\ parsed[i][<<"message">>] = exceptions[i].message
                      /\ parsed[i][<<"type">>] = exceptions[i].type
                      /\ parsed[i][<<"timestamp">>] = IsoFormat(exceptions[i].timestamp)

C10_Witness ==
    /\ op = "save_to_json"
    /\ Len(exceptions) = 2
    /\ exceptions[1].name = <<"\\", "n">>
    /\ exceptions[2].timestamp.usec # 0
    /\ Len(ParseJson(file.rows)) = 2

MostRecentIsFirstMaximum ==
    IF input.purchases = <<>> THEN result = None
    ELSE \E i \in 1..Len(input.purchases) :
             /\ result = input.purchases[i]
             /\ \A j \in 1..Len(input.purchases) :
                    input.purchases[j].purchase_time <= result.purchase_time
             /\ \A j \in 1..(i - 1) :
                    input.purchases[j].purchase_time < result.purchase_time

\* C9: get_most_recent_purchase returns nothing for an empty sequence and
\* otherwise the first member whose purchase time no member exceeds, and it
\* leaves the sequence passed to it as it was.
C9_MostRecentIsFirstMaximum ==
    [][op' = "get_most_recent_purchase" =>
          input' = input /\ MostRecentIsFirstMaximum']_vars

\* two different purchases share the latest time: the earlier one is returned
C9_Witness ==
    /\ op = "get_most_recent_purchase"
    /\ Len(input.purchases) = 3
    /\ input.purchases[2].purchase_time = 2
    /\ input.purchases[3].purchase_time = 2
    /\ input.purchases[2] # input.purchases[3]
    /\ result = input.purchases[2]

\* the characters of an identifier that are digits or dots, read left to right:
\* <<digits read as one number, digits after the dot, dots seen, digits seen>>
RECURSIVE ScanId(_, _)
ScanId(pid, acc) ==
    IF pid = <<>> THEN acc
    ELSE ScanId(Tail(pid),
                IF Head(pid) = "." THEN <<acc[1], acc[2], acc[3] + 1, acc[4]>>
                ELSE IF Head(pid) \in DigitChars
                THEN <<10 * acc[1] + DigitVal(Head(pid)),
                       IF acc[3] > 0 THEN acc[2] + 1 ELSE 0, acc[3], acc[4] + 1>>
                ELSE acc)

ParsesAsNumber(pid) ==
    /\ pid # MissingId
    /\ ScanId(pid, <<0, 0, 0, 0>>)[3] <= 1
    /\ ScanId(pid, <<0, 0, 0, 0>>)[4] >= 1

\* the sum, as <<numerator, denominator>>, of the numbers of the parsable
\* identifiers among the first n purchases
RECURSIVE ParsableSum(_)
ParsableSum(n) ==
    IF n = 0 THEN <<0, 1>>
    ELSE LET rest == ParsableSum(n - 1)
             scan == ScanId(purchases[n].product_id, <<0, 0, 0, 0>>)
         IN  IF ParsesAsNumber(purchases[n].product_id)
             THEN <<rest[1] * Pow10(scan[2]) + scan[1] * rest[2], rest[2] * Pow10(scan[2])>>
             ELSE rest

\* C11: revenue_estimation returns the sum of the numbers of exactly those
\* purchases whose product identifier, stripped to its digits and dots, parses
\* as a number; an identifier with no digit, with more than one dot or missing
\* contributes nothing, so a collection ending in such a purchase gives what
\* the collection without it gives, and an empty collection gives 0.
C11_RevenueSumsParsableIds ==
    op = "revenue_estimation" =>
        /\ result[2] > 0
        /\ result[1] * ParsableSum(Len(purchases))[2] =
               ParsableSum(Len(purchases))[1] * result[2]
        /\ purchases = <<>> => result = <<0, 1>>
        /\ (purchases # <<>> /\ ~ParsesAsNumber(purchases[Len(purchases)].product_id)) =>
               result[1] * ParsableSum(Len(purchases) - 1)[2] =
                   ParsableSum(Len(purchases) - 1)[1] * result[2]

\* "v1.5" counts 1.5; no digit, two dots and a missing identifier count nothing
C11_Witness ==
    /\ op = "revenue_estimation"
    /\ {purchases[i].product_id : i \in 1..Len(purchases)} =
           {<<"v", "1", ".", "5">>, <<"g">>, <<"1", ".", "2", ".", "3">>, MissingId}
    /\ result = <<3, 2>>

\* C12: a SKU whose price has no digit ranks as 0 for most_expensive_sku and
\* as infinity for least_expensive_sku: least_expensive_sku never returns it
\* when some SKU has a price with a digit, most_expensive_sku never returns it
\* when some SKU has a positive digit value, and both still return a member of
\* the collection (the first one when no SKU outranks it).
C12_NoDigitPriceRanksLast ==
    (op \in {"most_expensive_sku", "least_expensive_sku"} /\ skus # <<>>) =>
        /\ \E i \in 1..Len(skus) : skus[i] = result
        /\ (op = "least_expensive_sku"
            /\ \E j \in 1..Len(skus) : HasDigit(skus[j].price)) =>
               HasDigit(result.price)
        /\ (op = "most_expensive_sku"
            /\ \E j \in 1..Len(skus) : ConcatDigits(skus[j].price, 0) > 0) =>
               HasDigit(result.price)
        /\ (op = "most_expensive_sku"
            /\ \A j \in 1..Len(skus) : ConcatDigits(skus[j].price, 0) = 0) =>
               result = skus[1]
        /\ (op = "least_expensive_sku"
            /\ \A j \in 1..Len(skus) : ~HasDigit(skus[j].price)) =>
               result = skus[1]

\* a price without a digit comes first and a priced SKU is still the cheapest
C12_Witness ==
    /\ op = "least_expensive_sku"
    /\ Len(skus) = 2
    /\ ~HasDigit(skus[1].price)
    /\ HasDigit(skus[2].price)
    /\ result = skus[2]

====
